---- MODULE Spec2Model ----
(***************************************************************************)
(* The long-term memory of bront: the graph store of src/memory.py (class  *)
(* Memory) and the memory tools of src/bront.py that operate on the global *)
(* long_term_memory instance.                                              *)
(*                                                                         *)
(* Strings that the code inspects character by character (node content,    *)
(* the content pattern of forget_memory) are sequences of one-character    *)
(* strings; ids, tags and connection types are only compared for equality  *)
(* and are TLA+ strings.  A Python list is a sequence.  A MemoryNode       *)
(* object held in Memory.nodes is denoted, where its identity matters (the *)
(* tuples returned by Memory.recall), by its position in Memory.nodes.     *)
(***************************************************************************)
EXTENDS Integers, Sequences, FiniteSets, TLC

\* ------------------------------------------------------------------ bounds

\* remember_memory is not taken once the store holds this many nodes.
MaxNodes == 3

\* connect_memories is not taken once the store holds this many connections.
MaxConns == 2

\* ------------------------------------------------------------ input domains

\* (content, tags) arguments of remember_memory
Memories ==
    { [content |-> <<"A", "b">>, tags |-> <<"x">>],
      [content |-> <<"b">>, tags |-> <<"y", "x">>] }

\* content_pattern arguments of forget_memory ("" is <<>>)
Patterns == { <<>>, <<"a">>, <<"B">> }

\* tags arguments of forget_memory
ForgetTags == { <<>>, <<"y">> }

\* tags arguments of recall_memory
Queries == { <<>>, <<"z", "y">>, <<"z">> }

\* the tag lists Memory.recall is examined on
QuerySpace == Queries \cup { <<"x">>, <<"y">>, <<"x", "y">> }

\* (from_id, to_id) arguments of connect_memories and disconnect_memories:
\* both directions of a pair, pairs that share an end, and a self-loop
Pairs ==
    { <<"0", "1">>, <<"1", "0">>, <<"0", "2">>, <<"2", "1">>, <<"1", "1">> }

\* (from_id, to_id, connection_type) arguments of connect_memories
ConnectArgs ==
    { <<p[1], p[2], "related">> : p \in Pairs } \cup { <<"0", "1", "lives_near">> }

\* (from_id, to_id, connection_type) arguments of disconnect_memories
DisconnectArgs ==
    { <<p[1], p[2], "">> : p \in Pairs }
        \cup { <<"0", "1", "related">>, <<"0", "1", "lives_near">>, <<"1", "0", "related">> }

\* ------------------------------------------------------------------ helpers

\* Python set(list)
ToSet(s) == { s[i] : i \in 1..Len(s) }

\* Python str(int) for a non-negative integer
Digit == <<"0", "1", "2", "3", "4", "5", "6", "7", "8", "9">>

RECURSIVE Str(_)
Str(n) == IF n < 10 THEN Digit[n + 1] ELSE Str(n \div 10) \o Digit[(n % 10) + 1]

\* Python str.lower() on one character of the alphabet in use
LowerChar(c) ==
    CASE c = "A" -> "a"
      [] c = "B" -> "b"
      [] OTHER -> c

\* Python str.lower()
lower(s) == [ i \in 1..Len(s) |-> LowerChar(s[i]) ]

\* Python `sub in s` on strings
Contains(sub, s) ==
    \E k \in 0..(Len(s) - Len(sub)) : SubSeq(s, k + 1, k + Len(sub)) = sub

\* ---------------------------------------------------------------- the state

VARIABLES
    nodes,        \* long_term_memory.nodes: list of MemoryNode
    connections,  \* long_term_memory.connections: list of MemoryConnection
    file,         \* content of MEMORY_FILE, or NoFile
    ret           \* what the last tool call returned

vars == <<nodes, connections, file, ret>>

NoFile == [exists |-> FALSE]

\* MemoryNode.__init__
MemoryNode(id, content, tags) == [id |-> id, content |-> content, tags |-> tags]

\* MemoryConnection.__init__
MemoryConnection(from_id, to_id, type) ==
    [from_id |-> from_id, to_id |-> to_id, type |-> type]

\* ------------------------------------------------------------- persistence

\* MemoryNode.to_dict
NodeToDict(n) == [id |-> n.id, content |-> n.content, tags |-> n.tags]

\* MemoryConnection.to_dict
ConnToDict(c) == [from_id |-> c.from_id, to_id |-> c.to_id, type |-> c.type]

\* Memory.to_dict
to_dict(ns, cs) ==
    [ nodes |-> [ i \in 1..Len(ns) |-> NodeToDict(ns[i]) ],
      connections |-> [ i \in 1..Len(cs) |-> ConnToDict(cs[i]) ] ]

\* The JSON text of the file is a sequence of symbols: a bracket or brace, a
\* quote, or a string of the model.  An id, a tag, a type or a key is written
\* as the one symbol it is; the content is written between quotes, character
\* by character.  White space, commas and colons are not represented.
Punctuation == { "{", "}", "[", "]", "\"" }

\* the concatenation of a sequence of texts
RECURSIVE Flatten(_)
Flatten(ss) == IF ss = <<>> THEN <<>> ELSE Head(ss) \o Flatten(Tail(ss))

\* json.dump of a list of strings
DumpStrings(l) == <<"[">> \o l \o <<"]">>

\* json.dump of one member of a dict, when the dict has the key: the tags are
\* a list of strings, the content is a string of characters, every other
\* value is a string of one symbol
DumpMember(d, k) ==
    IF k \in DOMAIN d
    THEN <<k>> \o (CASE k = "tags" -> DumpStrings(d[k])
                     [] k = "content" -> <<"\"">> \o d[k] \o <<"\"">>
                     [] OTHER -> <<d[k]>>)
    ELSE <<>>

\* json.dump of a dict, its keys in the order to_dict inserted them
DumpObject(d, keys) ==
    <<"{">> \o Flatten([ i \in 1..Len(keys) |-> DumpMember(d, keys[i]) ]) \o <<"}">>

\* json.dump of a list of dicts
DumpObjects(l, keys) ==
    <<"[">> \o Flatten([ i \in 1..Len(l) |-> DumpObject(l[i], keys) ]) \o <<"]">>

\* json.dump(self.to_dict(), f, indent=2, ensure_ascii=False)
json_dump(doc) ==
    <<"{">>
        \o (IF "nodes" \in DOMAIN doc
            THEN <<"nodes">> \o DumpObjects(doc.nodes, <<"id", "content", "tags">>)
            ELSE <<>>)
        \o (IF "connections" \in DOMAIN doc
            THEN <<"connections">>
                     \o DumpObjects(doc.connections, <<"from_id", "to_id", "type">>)
            ELSE <<>>)
        \o <<"}">>

\* json.load: a dict is built from its (key, value) members, a later member
\* with the same key replacing an earlier one
JsonObject(members) ==
    [ k \in { members[i][1] : i \in 1..Len(members) } |->
        members[CHOOSE i \in 1..Len(members) :
                    /\ members[i][1] = k
                    /\ \A j \in (i + 1)..Len(members) : members[j][1] # k][2] ]

\* json.load could not decode the text (json.JSONDecodeError)
DecodeError == [ok |-> FALSE]

\* json.load: the value that starts at symbol p of text t, and where it ends
RECURSIVE ParseValue(_, _), ParseChars(_, _, _), ParseItems(_, _, _), ParseMembers(_, _, _)
ParseValue(t, p) ==
    IF p > Len(t) THEN DecodeError
    ELSE CASE t[p] = "[" -> ParseItems(t, p + 1, <<>>)
           [] t[p] = "{" -> ParseMembers(t, p + 1, <<>>)
           [] t[p] = "\"" -> ParseChars(t, p + 1, <<>>)
           [] t[p] \in {"]", "}"} -> DecodeError
           [] OTHER -> [ok |-> TRUE, val |-> t[p], next |-> p + 1]

\* json.load: the characters of a string up to its closing quote
ParseChars(t, p, acc) ==
    IF p > Len(t) THEN DecodeError
    ELSE IF t[p] = "\"" THEN [ok |-> TRUE, val |-> acc, next |-> p + 1]
    ELSE ParseChars(t, p + 1, Append(acc, t[p]))

\* json.load: the items of a list up to its closing bracket
ParseItems(t, p, acc) ==
    IF p > Len(t) THEN DecodeError
    ELSE IF t[p] = "]" THEN [ok |-> TRUE, val |-> acc, next |-> p + 1]
    ELSE LET v == ParseValue(t, p)
         IN  IF v.ok THEN ParseItems(t, v.next, Append(acc, v.val)) ELSE DecodeError

\* json.load: the members of a dict up to its closing brace
ParseMembers(t, p, acc) ==
    IF p > Len(t) THEN DecodeError
    ELSE IF t[p] = "}"
    THEN [ok |-> TRUE, val |-> JsonObject(acc), next |-> p + 1]
    ELSE IF t[p] \notin Punctuation
    THEN LET v == ParseValue(t, p + 1)
         IN  IF v.ok
             THEN ParseMembers(t, v.next, Append(acc, <<t[p], v.val>>))
             ELSE DecodeError
    ELSE DecodeError

\* json.load(f): the decoded document, or an exception raised; text after the
\* document is an error too
json_load(t) ==
    LET v == ParseValue(t, 1)
    IN  IF v.ok /\ v.next = Len(t) + 1
        THEN [raised |-> FALSE, data |-> v.val]
        ELSE [raised |-> TRUE]

\* MemoryNode.from_dict raises KeyError unless the three keys are present
NodeHasKeys(d) == {"id", "content", "tags"} \subseteq DOMAIN d

\* MemoryNode.from_dict
NodeFromDict(d) == MemoryNode(d["id"], d["content"], d["tags"])

\* MemoryConnection.from_dict raises KeyError unless the three keys are present
ConnHasKeys(d) == {"from_id", "to_id", "type"} \subseteq DOMAIN d

\* a slip in MemoryConnection.from_dict: the two ids are exchanged
ConnFromDict_swapped(d) == MemoryConnection(d["to_id"], d["from_id"], d["type"])

\* MemoryConnection.from_dict
ConnFromDict(d) == MemoryConnection(d["from_id"], d["to_id"], d["type"])

\* Memory.from_dict: the store, or an exception raised
from_dict(data) ==
    LET nodes_data == IF "nodes" \in DOMAIN data THEN data["nodes"] ELSE <<>>
        conns_data == IF "connections" \in DOMAIN data THEN data["connections"] ELSE <<>>
    IN  IF /\ \A i \in 1..Len(nodes_data) : NodeHasKeys(nodes_data[i])
           /\ \A i \in 1..Len(conns_data) : ConnHasKeys(conns_data[i])
        THEN [raised |-> FALSE,
              nodes |-> [ i \in 1..Len(nodes_data) |-> NodeFromDict(nodes_data[i]) ],
              connections |->
                  [ i \in 1..Len(conns_data) |-> ConnFromDict(conns_data[i]) ]]
        ELSE [raised |-> TRUE]

\* Memory.save_to_file, as called by save_memory: the file holds the text
save_memory(ns, cs) == [exists |-> TRUE, data |-> json_dump(to_dict(ns, cs))]

\* open(filepath, "r") fails on this file (no permission, a directory, ...)
Unreadable(f) == "unreadable" \in DOMAIN f

\* a slip in Memory.load_from_file: no os.path.exists test before open()
load_from_file_unchecked(f) ==
    IF ~f.exists \/ Unreadable(f) THEN [raised |-> TRUE]
    ELSE LET j == json_load(f.data)
         IN  IF j.raised THEN [raised |-> TRUE] ELSE from_dict(j.data)

\* Memory.load_from_file: the store, or an exception raised
load_from_file(f) ==
    IF ~f.exists
    THEN [raised |-> FALSE, nodes |-> <<>>, connections |-> <<>>]
    ELSE IF Unreadable(f) THEN [raised |-> TRUE]
    ELSE LET j == json_load(f.data)
         IN  IF j.raised THEN [raised |-> TRUE] ELSE from_dict(j.data)

\* ------------------------------------------------------------------- Memory

\* Memory.add_node
add_node(ns, node) == Append(ns, node)

\* a slip in the condition of Memory.add_connection: `or` for `and`
BothNodesExist_or(ns, conn) ==
    \/ \E i \in 1..Len(ns) : ns[i].id = conn.from_id
    \/ \E i \in 1..Len(ns) : ns[i].id = conn.to_id

\* the condition of Memory.add_connection: both endpoints are ids of nodes
BothNodesExist(ns, conn) ==
    /\ \E i \in 1..Len(ns) : ns[i].id = conn.from_id
    /\ \E i \in 1..Len(ns) : ns[i].id = conn.to_id

\* Memory.add_connection: the connection list afterwards, or ValueError raised
add_connection(ns, cs, conn) ==
    IF BothNodesExist(ns, conn)
    THEN [raised |-> FALSE, connections |-> Append(cs, conn)]
    ELSE [raised |-> TRUE, connections |-> cs]

\* a slip in Memory.get_tags: tags.add(node.tags[0]) for tags.update(node.tags)
RECURSIVE get_tags_first_tag(_)
get_tags_first_tag(ns) ==
    IF ns = <<>> THEN {}
    ELSE LET node == ns[Len(ns)]
         IN  get_tags_first_tag(SubSeq(ns, 1, Len(ns) - 1))
                 \cup (IF node.tags = <<>> THEN {} ELSE {node.tags[1]})

\* Memory.get_tags: tags = set(); tags.update(node.tags) for each node.  The
\* list it returns has the elements of that set in no specified order.
RECURSIVE get_tags(_)
get_tags(ns) ==
    IF ns = <<>> THEN {}
    ELSE get_tags(SubSeq(ns, 1, Len(ns) - 1)) \cup ToSet(ns[Len(ns)].tags)

\* the tags of the model in the order of Python's < on str
TagOrder == <<"x", "y", "z">>

StrLess(a, b) ==
    \E i, j \in 1..Len(TagOrder) : TagOrder[i] = a /\ TagOrder[j] = b /\ i < j

\* Python sorted(), on the list of the elements of S
RECURSIVE sorted(_)
sorted(S) ==
    IF S = {} THEN <<>>
    ELSE LET m == CHOOSE a \in S : \A c \in S : a = c \/ StrLess(a, c)
         IN  <<m>> \o sorted(S \ {m})

\* a slip in the match test of Memory.recall: every query tag is required
matched_nodes_all_tags(ns, tags) ==
    SelectSeq([ i \in 1..Len(ns) |-> i ],
              LAMBDA i : ToSet(tags) \subseteq ToSet(ns[i].tags))

\* Memory.recall, first loop: the positions of the nodes whose tags intersect
\* the query, in list order (matched_nodes)
matched_nodes(ns, tags) ==
    SelectSeq([ i \in 1..Len(ns) |-> i ],
              LAMBDA i : ToSet(tags) \cap ToSet(ns[i].tags) # {})

\* Memory.recall: matched_ids
matched_ids(ns, tags) == { ns[i].id : i \in ToSet(matched_nodes(ns, tags)) }

\* Memory.recall: node_lookup = {node.id: node for node in self.nodes}; a later
\* node with the same id replaces an earlier one
InLookup(ns, id) == \E i \in 1..Len(ns) : ns[i].id = id

node_lookup(ns, id) ==
    CHOOSE i \in 1..Len(ns) :
        ns[i].id = id /\ \A j \in (i + 1)..Len(ns) : ns[j].id # id

\* a slip in Memory.recall: the `if key not in related_nodes` test is lost and
\* every connection makes an entry of its own
DictAppend_always_new(d, key, item) ==
    Append(d, [key |-> key, value |-> <<item>>])

\* related_nodes is a dict, which keeps its keys in the order of their first
\* insertion: a sequence of [key, value].
\* `if key not in related_nodes: related_nodes[key] = []` and then
\* `related_nodes[key].append(item)`
DictAppend(d, key, item) ==
    IF \E i \in 1..Len(d) : d[i].key = key
    THEN [ i \in 1..Len(d) |->
             IF d[i].key = key
             THEN [d[i] EXCEPT !.value = Append(@, item)]
             ELSE d[i] ]
    ELSE Append(d, [key |-> key, value |-> <<item>>])

\* a slip in Memory.recall: the first test forgets `conn.from_id in matched_ids`
RelatedStep_unchecked_from(d, conn, mids) ==
    IF conn.to_id \notin mids
    THEN DictAppend(d, conn.to_id, <<conn.type, conn.from_id>>)
    ELSE IF conn.to_id \in mids /\ conn.from_id \notin mids
    THEN DictAppend(d, conn.from_id, <<conn.type, conn.to_id>>)
    ELSE d

\* a slip in Memory.recall: the evidence pair names the related node itself
RelatedStep_own_id(d, conn, mids) ==
    IF conn.from_id \in mids /\ conn.to_id \notin mids
    THEN DictAppend(d, conn.to_id, <<conn.type, conn.to_id>>)
    ELSE IF conn.to_id \in mids /\ conn.from_id \notin mids
    THEN DictAppend(d, conn.from_id, <<conn.type, conn.from_id>>)
    ELSE d

\* Memory.recall: the body of `for conn in self.connections`
RelatedStep(d, conn, mids) ==
    IF conn.from_id \in mids /\ conn.to_id \notin mids
    THEN DictAppend(d, conn.to_id, <<conn.type, conn.from_id>>)
    ELSE IF conn.to_id \in mids /\ conn.from_id \notin mids
    THEN DictAppend(d, conn.from_id, <<conn.type, conn.to_id>>)
    ELSE d

\* Memory.recall: related_nodes after the first k connections
RECURSIVE related_nodes(_, _, _)
related_nodes(cs, k, mids) ==
    IF k = 0 THEN <<>>
    ELSE RelatedStep(related_nodes(cs, k - 1, mids), cs[k], mids)

\* Memory.recall: result = [(node, True, []) for node in matched_nodes]
DirectEntries(m) ==
    [ k \in 1..Len(m) |->
        [node |-> m[k], is_direct_match |-> TRUE, connections |-> <<>>] ]

\* a slip in Memory.recall: the related nodes are emitted in node-list order
\* instead of the order of related_nodes
RelatedEntries_by_node(ns, d) ==
    LET hit == SelectSeq([ i \in 1..Len(ns) |-> i ],
                         LAMBDA i : /\ \E k \in 1..Len(d) : d[k].key = ns[i].id
                                    /\ node_lookup(ns, ns[i].id) = i)
    IN  [ k \in 1..Len(hit) |->
            [node |-> hit[k],
             is_direct_match |-> FALSE,
             connections |->
                 d[CHOOSE j \in 1..Len(d) : d[j].key = ns[hit[k]].id].value] ]

\* Memory.recall: the last loop, over related_nodes.items()
RelatedEntries(ns, d) ==
    LET known == SelectSeq(d, LAMBDA e : InLookup(ns, e.key))
    IN  [ k \in 1..Len(known) |->
            [node |-> node_lookup(ns, known[k].key),
             is_direct_match |-> FALSE,
             connections |-> known[k].value] ]

\* Memory.recall
recall(ns, cs, tags) ==
    DirectEntries(matched_nodes(ns, tags))
        \o RelatedEntries(ns, related_nodes(cs, Len(cs), matched_ids(ns, tags)))

\* -------------------------------------------------------- forget_memory parts

\* a slip in forget_memory: the content test compares without lower()
should_forget_case_sensitive(node, content_pattern, tags) ==
    \/ content_pattern # <<>> /\ Contains(content_pattern, node.content)
    \/ tags # <<>> /\ ToSet(tags) \cap ToSet(node.tags) # {}

\* a slip in forget_memory: `if tags and set(tags)` without the intersection
should_forget_any_tags(node, content_pattern, tags) ==
    \/ content_pattern # <<>> /\ Contains(lower(content_pattern), lower(node.content))
    \/ tags # <<>>

\* forget_memory: should_forget for one node
should_forget(node, content_pattern, tags) ==
    \/ content_pattern # <<>> /\ Contains(lower(content_pattern), lower(node.content))
    \/ tags # <<>> /\ ToSet(tags) \cap ToSet(node.tags) # {}

\* forget_memory: nodes_to_keep
nodes_to_keep(ns, content_pattern, tags) ==
    SelectSeq(ns, LAMBDA n : ~should_forget(n, content_pattern, tags))

\* a slip in forget_memory: `forgotten_ids.add(node.id)` sits outside the
\* `if should_forget`, so the id of every node is collected
forgotten_ids_all(ns, content_pattern, tags) ==
    { ns[i].id : i \in 1..Len(ns) }

\* forget_memory: forgotten_ids
forgotten_ids(ns, content_pattern, tags) ==
    { ns[i].id : i \in { j \in 1..Len(ns) : should_forget(ns[j], content_pattern, tags) } }

\* a slip in the cascade of forget_memory: only from_id is looked at
connections_to_keep_from_only(cs, fids) ==
    SelectSeq(cs, LAMBDA c : c.from_id \notin fids)

\* forget_memory: connections_to_keep
connections_to_keep(cs, fids) ==
    SelectSeq(cs, LAMBDA c : c.from_id \notin fids /\ c.to_id \notin fids)

\* a slip in disconnect_memories: the pair is matched in both directions
should_remove_undirected(conn, from_id, to_id, connection_type) ==
    /\ \/ conn.from_id = from_id /\ conn.to_id = to_id
       \/ conn.from_id = to_id /\ conn.to_id = from_id
    /\ connection_type = "" \/ conn.type = connection_type

\* disconnect_memories: should_remove for one connection
should_remove(conn, from_id, to_id, connection_type) ==
    /\ conn.from_id = from_id /\ conn.to_id = to_id
    /\ connection_type = "" \/ conn.type = connection_type

\* recall_memory: the line printed for one entry of the result
FormatEntry(ns, e) ==
    IF e.is_direct_match
    THEN [id |-> ns[e.node].id, content |-> ns[e.node].content, tags |-> ns[e.node].tags]
    ELSE [id |-> ns[e.node].id, content |-> ns[e.node].content, related |-> e.connections]

\* -------------------------------------------------------------------- tools

\* long_term_memory = Memory(); load_memory() finds no MEMORY_FILE on the first run
Init ==
    /\ nodes = <<>>
    /\ connections = <<>>
    /\ file = NoFile
    /\ ret = [kind |-> "start"]

\* remember_memory(content, tags)
remember_memory(content, tags) ==
    /\ Len(nodes) < MaxNodes
    /\ LET node_id == Str(Len(nodes))
       IN  nodes' = add_node(nodes, MemoryNode(node_id, content, tags))
    /\ connections' = connections
    /\ file' = save_memory(nodes', connections')
    /\ ret' = [kind |-> "None"]

\* recall_memory(tags)
recall_memory(tags) ==
    /\ UNCHANGED <<nodes, connections, file>>
    /\ ret' = IF tags = <<>>
              THEN [kind |-> "No tags provided."]
              ELSE LET recalled_items == recall(nodes, connections, tags)
                   IN  IF recalled_items = <<>>
                       THEN [kind |-> "No entries found for the given tags."]
                       ELSE [kind |-> "entries",
                             entries |-> [ k \in 1..Len(recalled_items) |->
                                             FormatEntry(nodes, recalled_items[k]) ]]

\* connect_memories(from_id, to_id, connection_type)
connect_memories(from_id, to_id, connection_type) ==
    /\ Len(connections) < MaxConns
    /\ LET r == add_connection(nodes, connections,
                               MemoryConnection(from_id, to_id, connection_type))
       IN  IF r.raised
           THEN /\ UNCHANGED <<nodes, connections, file>>
                /\ ret' = [kind |-> "Error creating connection"]
           ELSE /\ connections' = r.connections
                /\ nodes' = nodes
                /\ file' = save_memory(nodes', connections')
                /\ ret' = [kind |-> "Created connection"]

\* disconnect_memories(from_id, to_id, connection_type)
disconnect_memories(from_id, to_id, connection_type) ==
    LET original_count == Len(connections)
        kept == SelectSeq(connections,
                          LAMBDA c : ~should_remove(c, from_id, to_id, connection_type))
        removed_count == original_count - Len(kept)
    IN  /\ connections' = kept
        /\ nodes' = nodes
        /\ IF removed_count > 0
           THEN /\ file' = save_memory(nodes', connections')
                /\ ret' = [kind |-> "Removed", count |-> removed_count]
           ELSE /\ file' = file
                /\ ret' = [kind |-> "No connections found"]

\* a slip in forget_memory: save_memory() is called before the two lists are
\* assigned
forget_memory_saves_first(content_pattern, tags) ==
    IF content_pattern = <<>> /\ tags = <<>>
    THEN /\ UNCHANGED <<nodes, connections, file>>
         /\ ret' = [kind |-> "Please provide either content_pattern or tags"]
    ELSE LET original_count == Len(nodes)
             fids == forgotten_ids(nodes, content_pattern, tags)
         IN  /\ nodes' = nodes_to_keep(nodes, content_pattern, tags)
             /\ connections' = connections_to_keep(connections, fids)
             /\ LET forgotten_count == original_count - Len(nodes')
                IN  IF forgotten_count > 0
                    THEN /\ file' = save_memory(nodes, connections)
                         /\ ret' = [kind |-> "Forgot", count |-> forgotten_count,
                                    remain |-> Len(nodes')]
                    ELSE /\ file' = file
                         /\ ret' = [kind |-> "Nothing was forgotten"]

\* forget_memory(content_pattern, tags)
forget_memory(content_pattern, tags) ==
    IF content_pattern = <<>> /\ tags = <<>>
    THEN /\ UNCHANGED <<nodes, connections, file>>
         /\ ret' = [kind |-> "Please provide either content_pattern or tags"]
    ELSE LET original_count == Len(nodes)
             fids == forgotten_ids(nodes, content_pattern, tags)
         IN  /\ nodes' = nodes_to_keep(nodes, content_pattern, tags)
             /\ connections' = connections_to_keep(connections, fids)
             /\ LET forgotten_count == original_count - Len(nodes')
                IN  IF forgotten_count > 0
                    THEN /\ file' = save_memory(nodes', connections')
                         /\ ret' = [kind |-> "Forgot", count |-> forgotten_count,
                                    remain |-> Len(nodes')]
                    ELSE /\ file' = file
                         /\ ret' = [kind |-> "Nothing was forgotten"]

\* a slip in load_memory: the except branch does not reset long_term_memory
load_memory_keeps_store ==
    /\ LET r == load_from_file(file)
       IN  IF r.raised
           THEN /\ UNCHANGED <<nodes, connections>>
                /\ ret' = [kind |-> "Error loading memory file"]
           ELSE /\ nodes' = r.nodes
                /\ connections' = r.connections
                /\ ret' = [kind |-> "Loaded", count |-> Len(r.nodes)]
    /\ file' = file

\* load_memory(), run by main() when the process starts: a later run of the
\* program finds the file the earlier run left
load_memory ==
    /\ LET r == load_from_file(file)
       IN  IF r.raised
           THEN /\ nodes' = <<>>
                /\ connections' = <<>>
                /\ ret' = [kind |-> "Error loading memory file"]
           ELSE /\ nodes' = r.nodes
                /\ connections' = r.connections
                /\ ret' = [kind |-> "Loaded", count |-> Len(r.nodes)]
    /\ file' = file

\* list_memory_tags()
list_memory_tags ==
    /\ UNCHANGED <<nodes, connections, file>>
    /\ ret' = IF Len(nodes) = 0
              THEN [kind |-> "No memories stored"]
              ELSE LET all_tags == get_tags(nodes)
                       sorted_tags == sorted(all_tags)
                   IN  IF all_tags = {}
                       THEN [kind |-> "No tags found"]
                       ELSE [kind |-> "Available tags",
                             count |-> Len(sorted_tags),
                             tags |-> sorted_tags]

Remember == \E m \in Memories : remember_memory(m.content, m.tags)

Recall == \E tags \in Queries : recall_memory(tags)

Connect == \E a \in ConnectArgs : connect_memories(a[1], a[2], a[3])

Disconnect == \E a \in DisconnectArgs : disconnect_memories(a[1], a[2], a[3])

Forget == \E content_pattern \in Patterns, tags \in ForgetTags :
              forget_memory(content_pattern, tags)

Next ==
    \/ Remember
    \/ Recall
    \/ Connect
    \/ Disconnect
    \/ Forget
    \/ list_memory_tags

Spec == Init /\ [][Next]_vars

\* ------------------------------------------------ the file between two runs

\* the file is the one the running program last wrote: what happens to the
\* file between two runs happens to such a file
FileAsSaved == file = save_memory(nodes, connections)

\* the file is removed
DeleteFile ==
    /\ file.exists
    /\ file' = NoFile
    /\ UNCHANGED <<nodes, connections, ret>>

\* the file can no longer be opened for reading
MakeUnreadable ==
    /\ FileAsSaved
    /\ file' = [exists |-> TRUE, unreadable |-> TRUE]
    /\ UNCHANGED <<nodes, connections, ret>>

\* where a write of the text t may have stopped: at once, half way, before
\* the last symbol
TruncationPoints(t) == { 0, Len(t) \div 2, Len(t) - 1 }

\* the file holds only the first k symbols of a complete text (a write that
\* failed: save_to_file opens with "w" and does not replace the file atomically)
Truncate(k) ==
    /\ FileAsSaved
    /\ k < Len(file.data)
    /\ file' = [exists |-> TRUE, data |-> SubSeq(file.data, 1, k)]
    /\ UNCHANGED <<nodes, connections, ret>>

\* the dict d without key k
WithoutKey(d, k) == [ x \in (DOMAIN d) \ {k} |-> d[x] ]

\* the file is edited: the first record of the list `list` loses key k
DropField(list, k) ==
    /\ FileAsSaved
    /\ LET j == json_load(file.data)
       IN  /\ ~j.raised
           /\ list \in DOMAIN j.data
           /\ j.data[list] # <<>>
           /\ k \in DOMAIN j.data[list][1]
           /\ file' = [exists |-> TRUE,
                       data |-> json_dump([j.data EXCEPT
                                   ![list] = [@ EXCEPT ![1] = WithoutKey(@, k)]])]
    /\ UNCHANGED <<nodes, connections, ret>>

\* the file is edited: the document loses its "connections" list
DropConnections ==
    /\ FileAsSaved
    /\ LET j == json_load(file.data)
       IN  /\ ~j.raised
           /\ "connections" \in DOMAIN j.data
           /\ j.data["connections"] # <<>>
           /\ file' = [exists |-> TRUE,
                       data |-> json_dump(WithoutKey(j.data, "connections"))]
    /\ UNCHANGED <<nodes, connections, ret>>

TruncateFile ==
    /\ FileAsSaved
    /\ \E k \in TruncationPoints(file.data) : Truncate(k)

DropNodeTags == DropField("nodes", "tags")

DropConnectionType == DropField("connections", "type")

\* the connections made in the runs whose file is damaged
LoadConnectArgs == { <<"0", "1", "related">>, <<"1", "0", "lives_near">> }

ConnectForLoad == \E a \in LoadConnectArgs : connect_memories(a[1], a[2], a[3])

\* runs of the program that remember, connect and forget, with the file deleted,
\* protected, cut short or edited between a run and the next
NextLoad ==
    \/ Remember
    \/ ConnectForLoad
    \/ Forget
    \/ load_memory
    \/ DeleteFile
    \/ MakeUnreadable
    \/ TruncateFile
    \/ DropNodeTags
    \/ DropConnectionType
    \/ DropConnections

SpecLoad == Init /\ [][NextLoad]_vars


\* ------------------------------------------ SIGINT / SIGTERM during a run

\* the process is running: sys.exit(0) has not been called since it started
Running == ret.kind # "exit"

\* signal_handler(signum, frame), between two tool calls: save_memory(), then
\* sys.exit(0)
signal_handler ==
    /\ UNCHANGED <<nodes, connections>>
    /\ file' = save_memory(nodes, connections)
    /\ ret' = [kind |-> "exit"]

\* the last line of forget_memory executed when the handler runs: 88 (the
\* two loops are done), 89 (nodes assigned), 90 (connections assigned).
\* Python runs a handler set with signal.signal in the main thread between
\* two bytecode instructions of the code the signal interrupts.
SignalPoints == { 88, 89, 90 }

\* forget_memory(content_pattern, tags) interrupted by a signal after line
\* `line`: signal_handler saves long_term_memory as it is then, and exits
forget_memory_signal(content_pattern, tags, line) ==
    /\ content_pattern # <<>> \/ tags # <<>>
    /\ LET fids == forgotten_ids(nodes, content_pattern, tags)
       IN  /\ nodes' = IF line >= 89
                       THEN nodes_to_keep(nodes, content_pattern, tags)
                       ELSE nodes
           /\ connections' = IF line >= 90
                             THEN connections_to_keep(connections, fids)
                             ELSE connections
    /\ file' = save_memory(nodes', connections')
    /\ ret' = [kind |-> "exit"]

ForgetSignal ==
    \E content_pattern \in Patterns, tags \in ForgetTags, line \in SignalPoints :
        forget_memory_signal(content_pattern, tags, line)

\* runs of the program that a signal ends, between two tool calls or inside
\* forget_memory, each followed by a new run that loads the file
NextSignal ==
    \/ Running /\ Remember
    \/ Running /\ ConnectForLoad
    \/ Running /\ Forget
    \/ Running /\ signal_handler
    \/ Running /\ ForgetSignal
    \/ ~Running /\ load_memory

SpecSignal == Init /\ [][NextSignal]_vars

\* ------------------------------------------------------------------- claims

\* the ids of the nodes in the store
NodeIds == { nodes[i].id : i \in 1..Len(nodes) }

\* C1: referential integrity: in every state reached from the empty store by
\* remember_memory, connect_memories, forget_memory and disconnect_memories,
\* each connection's from_id and to_id are ids of nodes in the store.
C1_ReferentialIntegrity ==
    \A i \in 1..Len(connections) :
        connections[i].from_id \in NodeIds /\ connections[i].to_id \in NodeIds

\* a forget has removed a node and a connection between survivors remains
C1_Witness ==
    /\ ret.kind = "Forgot"
    /\ connections # <<>>
    /\ Len(nodes) >= 2

\* C2: a connect_memories call whose from_id or to_id is not the id of a node
\* reports the error and leaves nodes and connections as they were; a call
\* with both endpoints present appends exactly that connection at the end.
C2_AddConnection ==
    [][ \A a \in ConnectArgs :
            connect_memories(a[1], a[2], a[3]) =>
                IF a[1] \notin NodeIds \/ a[2] \notin NodeIds
                THEN /\ ret'.kind = "Error creating connection"
                     /\ nodes' = nodes
                     /\ connections' = connections
                ELSE /\ ret'.kind = "Created connection"
                     /\ nodes' = nodes
                     /\ connections' =
                            connections \o
                                << [from_id |-> a[1], to_id |-> a[2], type |-> a[3]] >>
      ]_vars

\* a connection was refused although the store holds nodes and a connection
C2_Witness ==
    /\ ret.kind = "Error creating connection"
    /\ nodes # <<>>
    /\ connections # <<>>

\* C3: no two nodes in the store share an id.
C3_UniqueIds ==
    \A i, j \in 1..Len(nodes) : i # j => nodes[i].id # nodes[j].id

\* C4: a remember_memory call, which adds the node with add_node, leaves the
\* store unchanged when the id of the new node is already the id of a node,
\* and appends the node otherwise.
C4_AddNodeRejectsDuplicate ==
    [][ \A m \in Memories :
            remember_memory(m.content, m.tags) =>
                IF Str(Len(nodes)) \in NodeIds
                THEN nodes' = nodes /\ connections' = connections
                ELSE nodes' = nodes \o
                        << [id |-> Str(Len(nodes)), content |-> m.content, tags |-> m.tags] >>
      ]_vars

\* C5: for every store and every query, the node at a position of the node
\* list is in a Direct entry of Memory.recall's result exactly when its tags
\* and the query have a tag in common, and a Direct entry has no evidence.
C5_DirectMatches ==
    \A q \in QuerySpace :
        LET r == recall(nodes, connections, q)
        IN  /\ \A i \in 1..Len(nodes) :
                   (\E t \in ToSet(q) : t \in ToSet(nodes[i].tags))
                       <=> (\E k \in 1..Len(r) : r[k].node = i /\ r[k].is_direct_match)
            /\ \A k \in 1..Len(r) :
                   r[k].is_direct_match => r[k].connections = <<>>

\* recall_memory has returned entries for a query that some node matches and
\* some node does not
C5_Witness ==
    /\ ret.kind = "entries"
    /\ \E q \in Queries :
        LET r == recall(nodes, connections, q)
        IN  /\ ret.entries = [ k \in 1..Len(r) |-> FormatEntry(nodes, r[k]) ]
            /\ \E i \in 1..Len(nodes) : ToSet(q) \cap ToSet(nodes[i].tags) # {}
            /\ \E i \in 1..Len(nodes) : ToSet(q) \cap ToSet(nodes[i].tags) = {}

\* the ids of the Direct entries of a recall result r
DirectIds(r) ==
    { nodes[r[k].node].id : k \in { l \in 1..Len(r) : r[l].is_direct_match } }

\* connection c joins the node with this id to a Direct match of r, in either
\* direction
Joins(c, id, r) ==
    \/ c.from_id = id /\ c.to_id \in DirectIds(r)
    \/ c.to_id = id /\ c.from_id \in DirectIds(r)

\* the positions in the connection list of the connections that join id to a
\* Direct match of r
JoinPositions(id, r) ==
    { j \in 1..Len(connections) : Joins(connections[j], id, r) }

\* the evidence pair of connection c for the node with this id
EvidencePair(c, id) ==
    IF c.from_id = id THEN <<c.type, c.to_id>> ELSE <<c.type, c.from_id>>

\* the evidence pairs of the connections at positions 1..k that join id to a
\* Direct match of r, in connection order
RECURSIVE EvidenceUpTo(_, _, _)
EvidenceUpTo(k, id, r) ==
    IF k = 0 THEN <<>>
    ELSE IF Joins(connections[k], id, r)
         THEN Append(EvidenceUpTo(k - 1, id, r), EvidencePair(connections[k], id))
         ELSE EvidenceUpTo(k - 1, id, r)

\* C6: a node that is not a Direct match is in a Related entry exactly when
\* some connection has its id at one end and the id of a Direct match at the
\* other, and the evidence of a Related entry is the list of (type, id of the
\* Direct match) pairs of those connections, one per connection.
C6_RelatedMatches ==
    \A q \in QuerySpace :
        LET r == recall(nodes, connections, q)
            Direct(i) == \E k \in 1..Len(r) : r[k].node = i /\ r[k].is_direct_match
            Related(i) == \E k \in 1..Len(r) : r[k].node = i /\ ~r[k].is_direct_match
        IN  /\ \A i \in 1..Len(nodes) :
                   ~Direct(i) =>
                       (Related(i) <=> JoinPositions(nodes[i].id, r) # {})
            /\ \A k \in 1..Len(r) :
                   ~r[k].is_direct_match =>
                       r[k].connections =
                           EvidenceUpTo(Len(connections), nodes[r[k].node].id, r)

\* the same statement on the stores whose node ids are unique
C6_RelatedMatchesUniqueIds == C3_UniqueIds => C6_RelatedMatches

\* C7: in a recall result no node is in two entries, and a Related entry
\* carries one evidence pair for each connection that joins it to a Direct
\* match.
C7_NoDuplicates ==
    \A q \in QuerySpace :
        LET r == recall(nodes, connections, q)
        IN  /\ \A k, l \in 1..Len(r) : k # l => r[k].node # r[l].node
            /\ \A k \in 1..Len(r) :
                   ~r[k].is_direct_match =>
                       Len(r[k].connections) =
                           Cardinality(JoinPositions(nodes[r[k].node].id, r))

\* recall_memory has returned a Related entry whose evidence names two
\* different Direct matches
C7_Witness ==
    /\ ret.kind = "entries"
    /\ \E k \in 1..Len(ret.entries) :
        /\ "related" \in DOMAIN ret.entries[k]
        /\ Len(ret.entries[k].related) = 2
        /\ ret.entries[k].related[1][2] # ret.entries[k].related[2][2]

\* the position of the first connection that joins id to a Direct match of r
FirstJoin(id, r) ==
    CHOOSE j \in JoinPositions(id, r) : \A j2 \in JoinPositions(id, r) : j <= j2

\* C8: in a recall result the Direct entries come before the Related ones,
\* the Direct entries are in node-list order, and the Related entries are in
\* the order of the first connection that joins each to a Direct match.
C8_Ordering ==
    \A q \in QuerySpace :
        LET r == recall(nodes, connections, q)
        IN  \A k, l \in 1..Len(r) :
                k < l =>
                    /\ r[l].is_direct_match => r[k].is_direct_match
                    /\ r[k].is_direct_match /\ r[l].is_direct_match
                           => r[k].node < r[l].node
                    /\ ~r[k].is_direct_match /\ ~r[l].is_direct_match
                           => /\ JoinPositions(nodes[r[k].node].id, r) # {}
                              /\ JoinPositions(nodes[r[l].node].id, r) # {}
                              /\ FirstJoin(nodes[r[k].node].id, r)
                                     < FirstJoin(nodes[r[l].node].id, r)

\* recall_memory has returned a Direct entry followed by two Related entries
\* whose order is the reverse of their order in the node list
C8_Witness ==
    /\ ret.kind = "entries"
    /\ \E q \in Queries :
        LET r == recall(nodes, connections, q)
        IN  /\ ret.entries = [ k \in 1..Len(r) |-> FormatEntry(nodes, r[k]) ]
            /\ \E k, l \in 1..Len(r) :
                /\ k < l
                /\ ~r[k].is_direct_match /\ ~r[l].is_direct_match
                /\ r[k].node > r[l].node

\* C9: Memory.recall returns the empty list when the query is empty and when
\* no node has a tag of the query; a result without a Direct entry has no
\* Related entry either.
C9_EmptyRecall ==
    \A q \in QuerySpace :
        LET r == recall(nodes, connections, q)
        IN  /\ q = <<>> => r = <<>>
            /\ (\A i \in 1..Len(nodes) : ToSet(q) \cap ToSet(nodes[i].tags) = {})
                   => r = <<>>
            /\ (\A k \in 1..Len(r) : ~r[k].is_direct_match) => r = <<>>

\* recall_memory found nothing in a store that holds nodes and connections
C9_Witness ==
    /\ ret.kind = "No entries found for the given tags."
    /\ nodes # <<>>
    /\ connections # <<>>

\* the letters a and b are the same up to case
SameLetter(a, b) == LowerChar(a) = LowerChar(b)

\* content contains sub, case-insensitively
ContainsIgnoringCase(sub, content) ==
    \E k \in 0..(Len(content) - Len(sub)) :
        \A j \in 1..Len(sub) : SameLetter(content[k + j], sub[j])

\* the replies of a forget_memory call that was given a pattern or tags; a
\* step with another reply is not such a call
ForgetReplies == { "Forgot", "Nothing was forgotten" }

\* C10: a forget_memory call with a non-empty argument leaves exactly the
\* nodes that neither contain the non-empty pattern case-insensitively nor
\* share a tag with the non-empty tag list, in their original order, and
\* reports the number of nodes removed (nothing forgotten when it is zero).
C10_ForgetRemovesMatches ==
    [][ \A p \in Patterns, t \in ForgetTags :
            (p # <<>> \/ t # <<>>) /\ ret'.kind \in ForgetReplies /\ forget_memory(p, t) =>
                LET Matches(n) ==
                        \/ p # <<>> /\ ContainsIgnoringCase(p, n.content)
                        \/ t # <<>> /\ \E x \in ToSet(t) : x \in ToSet(n.tags)
                    keep == SelectSeq([ i \in 1..Len(nodes) |-> i ],
                                      LAMBDA i : ~Matches(nodes[i]))
                    removed == Len(nodes) - Len(keep)
                IN  /\ nodes' = [ k \in 1..Len(keep) |-> nodes[keep[k]] ]
                    /\ IF removed > 0
                       THEN ret'.kind = "Forgot" /\ ret'.count = removed
                       ELSE ret'.kind = "Nothing was forgotten"
      ]_vars

\* a forget has removed two nodes and kept one
C10_Witness ==
    /\ ret.kind = "Forgot"
    /\ ret.count = 2
    /\ ret.remain = 1

\* node n meets the criteria (p, t) of a forget
MeetsCriteria(n, p, t) ==
    \/ p # <<>> /\ ContainsIgnoringCase(p, n.content)
    \/ t # <<>> /\ \E x \in ToSet(t) : x \in ToSet(n.tags)

\* the subsequence of s at the positions in K, in order
Restrict(s, K) ==
    LET idx == SelectSeq([ i \in 1..Len(s) |-> i ], LAMBDA i : i \in K)
    IN  [ k \in 1..Len(idx) |-> s[idx[k]] ]

\* C11: after a forget_memory call with a non-empty argument the connection
\* list is the prior list without the connections whose from_id or to_id is
\* the id of a removed node, the others kept in order.
C11_CascadeOnForget ==
    [][ \A p \in Patterns, t \in ForgetTags :
            (p # <<>> \/ t # <<>>) /\ ret'.kind \in ForgetReplies /\ forget_memory(p, t) =>
                LET removedIds ==
                        { nodes[i].id :
                            i \in { j \in 1..Len(nodes) : MeetsCriteria(nodes[j], p, t) } }
                    stays == { k \in 1..Len(connections) :
                                 /\ connections[k].from_id \notin removedIds
                                 /\ connections[k].to_id \notin removedIds }
                IN  connections' = Restrict(connections, stays)
      ]_vars

\* a forget has removed one node of three and one connection is in the store
C11_Witness ==
    /\ ret.kind = "Forgot"
    /\ ret.count = 1
    /\ ret.remain = 2
    /\ Len(connections) = 1

\* C12: a forget_memory call with a non-empty argument that no node meets
\* leaves the node list, the connection list and the file as they were and
\* reports that nothing was forgotten.
C12_ForgetNoMatch ==
    [][ \A p \in Patterns, t \in ForgetTags :
            /\ p # <<>> \/ t # <<>>
            /\ ret'.kind \in ForgetReplies
            /\ forget_memory(p, t)
            /\ \A i \in 1..Len(nodes) : ~MeetsCriteria(nodes[i], p, t)
            => /\ nodes' = nodes
               /\ connections' = connections
               /\ file' = file
               /\ ret'.kind = "Nothing was forgotten"
      ]_vars

\* a forget found nothing in a store that holds nodes and connections
C12_Witness ==
    /\ ret.kind = "Nothing was forgotten"
    /\ nodes # <<>>
    /\ connections # <<>>

\* C13: a disconnect_memories call removes the connections from from_id to
\* to_id, of the given type when a type is given, and no other; it leaves the
\* nodes alone and reports the number removed (none found when it is zero).
C13_Disconnect ==
    [][ \A a \in DisconnectArgs :
            disconnect_memories(a[1], a[2], a[3]) =>
                LET Hit(k) == /\ connections[k].from_id = a[1]
                              /\ connections[k].to_id = a[2]
                              /\ a[3] # "" => connections[k].type = a[3]
                    hits == { k \in 1..Len(connections) : Hit(k) }
                    removed == Cardinality(hits)
                IN  /\ connections' = Restrict(connections, (1..Len(connections)) \ hits)
                    /\ nodes' = nodes
                    /\ IF removed > 0
                       THEN ret'.kind = "Removed" /\ ret'.count = removed
                       ELSE ret'.kind = "No connections found"
      ]_vars

\* a disconnect has removed one connection of two, leaving one that joins the
\* same two nodes (the reverse pair, or the same pair with another type)
C13_Witness ==
    /\ ret.kind = "Removed"
    /\ ret.count = 1
    /\ Len(connections) = 1
    /\ {connections[1].from_id, connections[1].to_id} = {"0", "1"}

\* the store (ns, cs) as from_dict and load_from_file return it
Loaded(ns, cs) == [raised |-> FALSE, nodes |-> ns, connections |-> cs]

\* C14: for every store S, from_dict(to_dict(S)), and load_from_file after
\* save_to_file on the same path, yield the nodes of S (id, content, tags) in
\* the same order and the connections of S (from_id, to_id, type) in the same
\* order.
C14_RoundTrip ==
    /\ from_dict(to_dict(nodes, connections)) = Loaded(nodes, connections)
    /\ load_from_file(save_memory(nodes, connections)) = Loaded(nodes, connections)

\* a store of two nodes with different tag lists and a connection between
\* them has been read back from the file by a later run
C14_Witness ==
    /\ ret.kind = "Loaded"
    /\ Len(nodes) >= 2
    /\ nodes[1].tags # nodes[2].tags
    /\ \E i \in 1..Len(connections) : connections[i].from_id # connections[i].to_id

\* C15: load_from_file on a path where no file exists returns a fresh store
\* with zero nodes and zero connections and raises nothing; the run that
\* starts there starts with that store.
C15_LoadMissingFile ==
    [][ (load_memory /\ ~file.exists) =>
            /\ load_from_file(file) = Loaded(<<>>, <<>>)
            /\ nodes' = <<>>
            /\ connections' = <<>>
            /\ ret' = [kind |-> "Loaded", count |-> 0] ]_vars

\* a run has started where the file of an earlier run had been removed
C15_Witness ==
    /\ ~file.exists
    /\ ret = [kind |-> "Loaded", count |-> 0]
    /\ nodes = <<>>

\* the number of brackets and braces opened and not closed in the text t
RECURSIVE Depth(_)
Depth(t) ==
    IF t = <<>> THEN 0
    ELSE Depth(Tail(t)) + (IF Head(t) \in {"{", "["} THEN 1
                           ELSE IF Head(t) \in {"}", "]"} THEN -1
                           ELSE 0)

\* the text t is not a JSON document: it is empty or stops inside a list or
\* an object
InvalidJson(t) == t = <<>> \/ Depth(t) # 0

\* the document of the file f has a record without one of its fields
MissingField(f) ==
    LET j == json_load(f.data)
    IN  /\ ~j.raised
        /\ \/ /\ "nodes" \in DOMAIN j.data
              /\ \E i \in 1..Len(j.data["nodes"]) :
                     {"id", "content", "tags"} \ DOMAIN j.data["nodes"][i] # {}
           \/ /\ "connections" \in DOMAIN j.data
              /\ \E i \in 1..Len(j.data["connections"]) :
                     {"from_id", "to_id", "type"} \ DOMAIN j.data["connections"][i] # {}

\* loading the file f fails
LoadFails(f) ==
    /\ f.exists
    /\ \/ Unreadable(f)
       \/ /\ ~Unreadable(f)
          /\ InvalidJson(f.data) \/ MissingField(f)

\* C19: any failure while loading the memory file (the file cannot be read,
\* its text is not valid JSON, a node or connection record lacks a field)
\* leaves the run with zero nodes and zero connections, and load_memory
\* returns after reporting the error.
C19_LoadRecovery ==
    [][ (load_memory /\ LoadFails(file)) =>
            /\ nodes' = <<>>
            /\ connections' = <<>>
            /\ ret' = [kind |-> "Error loading memory file"] ]_vars

\* a run has started on a file that is valid JSON with a connection record
\* that has no "type"
C19_Witness ==
    /\ ret.kind = "Error loading memory file"
    /\ file.exists /\ ~Unreadable(file)
    /\ ~InvalidJson(file.data)
    /\ MissingField(file)
    /\ nodes = <<>> /\ connections = <<>>

\* the union of the tag collections of the nodes in the store
AllTags == UNION { ToSet(nodes[i].tags) : i \in 1..Len(nodes) }

\* C16: list_memory_tags lists exactly the union of the tag collections of
\* the nodes now in the store, each tag once; on the empty store get_tags
\* returns the empty collection and the tool replies that there are none.
\* (So a tag that only forgotten nodes carried is not listed.)
C16_ListTags ==
    [][ list_memory_tags =>
            /\ get_tags(nodes) = AllTags
            /\ IF nodes = <<>>
               THEN get_tags(nodes) = {} /\ ret'.kind = "No memories stored"
               ELSE IF AllTags = {}
               THEN ret'.kind = "No tags found"
               ELSE /\ ret'.kind = "Available tags"
                    /\ ToSet(ret'.tags) = AllTags
                    /\ Len(ret'.tags) = Cardinality(AllTags)
                    /\ ret'.count = Cardinality(AllTags) ]_vars

\* the tags are listed after the one node that carried "y" (node "0") was
\* forgotten: the node left carries "x" only
C16_Witness ==
    /\ ret = [kind |-> "Available tags", count |-> 1, tags |-> <<"x">>]
    /\ nodes # <<>>
    /\ nodes[1].id # "0"

\* C17: writes succeeding, after every completed tool operation that changes
\* the store (remember_memory, a connect_memories that succeeds, a
\* forget_memory that removes a node, a disconnect_memories that removes a
\* connection) the file holds exactly the serialization of the store; hence
\* between tool operations the nodes and connections in the file are the ones
\* in memory.  (Before the first write there is no file and the store is
\* empty.)
C17_FlushAfterMutation ==
    /\ file.exists => file = save_memory(nodes, connections)
    /\ ~file.exists => nodes = <<>> /\ connections = <<>>
    /\ load_from_file(file) = Loaded(nodes, connections)

\* forget_memory has removed nodes, and the file holds the store that is left
C17_Witness ==
    /\ ret.kind = "Forgot"
    /\ nodes # <<>>
    /\ file = save_memory(nodes, connections)
    /\ load_from_file(file) = Loaded(nodes, connections)

\* C18: when a shutdown signal is handled at any point during forget_memory,
\* between the assignment of the surviving nodes and the assignment of the
\* surviving connections included, the state signal_handler saves to the file
\* is the full pre-forget store or the full post-forget store.
C18_SignalDuringForget ==
    [][ \A content_pattern \in Patterns, tags \in ForgetTags, line \in SignalPoints :
            forget_memory_signal(content_pattern, tags, line) =>
                LET fids == forgotten_ids(nodes, content_pattern, tags)
                IN  \/ file' = save_memory(nodes, connections)
                    \/ file' = save_memory(nodes_to_keep(nodes, content_pattern, tags),
                                           connections_to_keep(connections, fids)) ]_vars

\* the ids of the Related entries of a recall result r
RelatedIds(r) ==
    { nodes[r[k].node].id : k \in { l \in 1..Len(r) : ~r[l].is_direct_match } }

\* C20: in any recall result over a store with referential integrity, every
\* Related entry has a non-empty evidence list, every id named in an evidence
\* pair is the id of a Direct entry of the same result, and no node id is in
\* both a Direct entry and a Related entry.
C20_EvidenceWellFounded ==
    C1_ReferentialIntegrity =>
        \A q \in QuerySpace :
            LET r == recall(nodes, connections, q)
            IN  /\ \A k \in 1..Len(r) :
                       ~r[k].is_direct_match =>
                           /\ r[k].connections # <<>>
                           /\ \A e \in 1..Len(r[k].connections) :
                                  r[k].connections[e][2] \in DirectIds(r)
                /\ DirectIds(r) \cap RelatedIds(r) = {}

\* recall_memory has returned a Related entry, in a store where two nodes
\* share an id
C20_Witness ==
    /\ ret.kind = "entries"
    /\ \E k \in 1..Len(ret.entries) :
           /\ "related" \in DOMAIN ret.entries[k]
           /\ ret.entries[k].related # <<>>
    /\ \E i, j \in 1..Len(nodes) : i # j /\ nodes[i].id = nodes[j].id

====
